---- MODULE Spec2Model ----
(***************************************************************************)
(* Model of the language handling of the publishing package:               *)
(* ValidateAndSetLanguage, setLanguageSafely, GetLanguageWithFallback,     *)
(* the language registry (constants.LanguageMap / IsValidLanguage), the    *)
(* YouTubeMetrics counters, the error classifier of errors.go and the      *)
(* storage of the per-item and index documents.                            *)
(*                                                                         *)
(* Go pointers are modelled as sequences of length at most one: NIL is the *)
(* nil pointer, <<r>> points to the record r.                              *)
(***************************************************************************)
EXTENDS Integers, Sequences, FiniteSets, TLC

VARIABLES
    YouTubeMetrics,   \* the global *Metrics instance (metrics.go:18)
    video,            \* the *storage.Video handed to the handlers
    youtubeVideo,     \* the *youtube.Video handed to ValidateAndSetLanguage
    call,             \* the last call made: arguments, pre-state and outcome
    appliedDefault,   \* NIL until lines 55-56 wrote the item, then <<default of that call>>
    panicked,         \* TRUE once a call ended in a run-time panic
    errCalls,         \* the last call into errors.go, and the CategorizeError call before it
    program,          \* the loop each goroutine runs: its body of Inc calls, its iterations
    done,             \* per goroutine, the number of Inc calls it has completed
    resetPc,          \* the number of stores the concurrent Reset call has completed
    late,             \* per counter, the increments made after Reset stored it
    rateCall,         \* the success-rate call in progress or last returned: its loads so far
    files,            \* per path, NIL or the content of the file there
    savers,           \* per saver, the WriteVideo / WriteIndex call it is in
    lastSaved,        \* per path, NIL or the value of the save that completed last
    storeCall,        \* the last completed call into the persistence layer
    invocations       \* per goroutine, the ValidateAndSetLanguage call it is in

concVars == <<program, done, resetPc, late, rateCall>>

storeVars == <<files, savers, lastSaved, storeCall>>

vars == <<YouTubeMetrics, video, youtubeVideo, call, appliedDefault, panicked,
          errCalls, program, done, resetPc, late, rateCall,
          files, savers, lastSaved, storeCall, invocations>>

NIL == <<>>

Ptr(r) == <<r>>

\* Bound on the number of ValidateAndSetLanguage / GetLanguageWithFallback
\* calls between two resets of the counters.
MaxCalls == 3

\* Language codes the model draws item fields and defaults from: the empty
\* code, the only registered code, and two codes outside the registry.
Codes == {"", "en", "fr", "invalid"}

\* Goroutines of the concurrent runs, and loop iterations of each.
NumGoroutines == 2

IncrementsPerGoroutine == 2

\* Snippet titles, to observe that setLanguageSafely keeps an existing snippet.
Titles == {"", "t"}

-----------------------------------------------------------------------------
(* constants package                                                       *)

LanguageEnglish == "en"

LanguageMap == (LanguageEnglish :> "English")

IsValidLanguage_AcceptsNonEmpty(code) == code # ""

IsValidLanguage(code) == code \in DOMAIN LanguageMap

-----------------------------------------------------------------------------
(* errors.go                                                               *)

ErrorTypeAuth == "auth"

ErrorTypeRateLimit == "rate_limit"

ErrorTypeNetwork == "network"

ErrorTypeInvalid == "invalid_request"

ErrorTypeServer == "server_error"

ErrorTypeLanguage == "language_error"

ErrorTypeUpload == "upload_error"

ErrorTypeUnknown == "unknown"

ErrorTypeInternal == "internal"

\* A plain Go error made by errors.New(text); its Error() is the text.
NewError(text) == Ptr([Text |-> text])

\* Whether the (non-nil) error value is a *YouTubeError.
IsYouTubeError(err) == "Type" \in DOMAIN err[1]

\* A &YouTubeError{...} literal; fields left out of a literal are "".
YouTubeError(type, message, retryable, originalErr, videoID, language) ==
    Ptr([Type          |-> type,
         Message       |-> message,
         Retryable     |-> retryable,
         OriginalError |-> originalErr,
         VideoID       |-> videoID,
         Language      |-> language])

\* err.Error() of any non-nil error value, as %v prints it.
RECURSIVE ErrorText(_)

Error_AlwaysOriginal(e) ==
    "YouTube error [" \o e[1].Type \o "]: " \o e[1].Message \o " (original: "
        \o (IF e[1].OriginalError # NIL THEN ErrorText(e[1].OriginalError)
            ELSE "<nil>") \o ")"

\* YouTubeError.Error
Error(e) ==
    IF e[1].OriginalError # NIL
    THEN "YouTube error [" \o e[1].Type \o "]: " \o e[1].Message
            \o " (original: " \o ErrorText(e[1].OriginalError) \o ")"
    ELSE "YouTube error [" \o e[1].Type \o "]: " \o e[1].Message

ErrorText(err) == IF IsYouTubeError(err) THEN Error(err) ELSE err[1].Text

UpperLetters == "ABCDEFGHIJKLMNOPQRSTUVWXYZ"

LowerLetters == "abcdefghijklmnopqrstuvwxyz"

\* The lower-case form of a one-character string.
ToLowerChar(c) ==
    IF \E i \in 1..Len(UpperLetters) : SubSeq(UpperLetters, i, i) = c
    THEN LET i == CHOOSE j \in 1..Len(UpperLetters) : SubSeq(UpperLetters, j, j) = c
         IN  SubSeq(LowerLetters, i, i)
    ELSE c

\* strings.ToLower
RECURSIVE ToLower(_)
ToLower(str) ==
    IF str = "" THEN ""
    ELSE ToLowerChar(SubSeq(str, 1, 1)) \o ToLower(SubSeq(str, 2, Len(str)))

\* strings.Contains
Contains(str, substr) ==
    \E i \in 1..(Len(str) - Len(substr) + 1) :
        SubSeq(str, i, i + Len(substr) - 1) = substr

Categorize_LanguageBeforeInvalid(errStr, err) ==
    IF Contains(errStr, "authentication") \/ Contains(errStr, "unauthorized")
    THEN YouTubeError(ErrorTypeAuth,
             "Authentication failed or insufficient permissions", FALSE, err, "", "")
    ELSE IF Contains(errStr, "rate limit") \/ Contains(errStr, "quota")
    THEN YouTubeError(ErrorTypeRateLimit,
             "Rate limit exceeded or quota exceeded", TRUE, err, "", "")
    ELSE IF Contains(errStr, "network") \/ Contains(errStr, "timeout")
            \/ Contains(errStr, "connection")
    THEN YouTubeError(ErrorTypeNetwork, "Network connectivity issue", TRUE, err, "", "")
    ELSE IF Contains(errStr, "language") \/ Contains(errStr, "locale")
    THEN YouTubeError(ErrorTypeLanguage, "Language setting error", FALSE, err, "", "")
    ELSE IF Contains(errStr, "invalid") \/ Contains(errStr, "bad request")
    THEN YouTubeError(ErrorTypeInvalid,
             "Invalid request or malformed data", FALSE, err, "", "")
    ELSE IF Contains(errStr, "server error") \/ Contains(errStr, "internal server")
    THEN YouTubeError(ErrorTypeServer, "YouTube server error", TRUE, err, "", "")
    ELSE IF Contains(errStr, "upload") \/ Contains(errStr, "video")
    THEN YouTubeError(ErrorTypeUpload, "Video upload error", TRUE, err, "", "")
    ELSE YouTubeError(ErrorTypeUnknown, "Unknown error occurred", FALSE, err, "", "")

\* The switch of CategorizeError (lines 59-116) over the lowered message:
\* the first case that matches returns.
Categorize(errStr, err) ==
    IF Contains(errStr, "authentication") \/ Contains(errStr, "unauthorized")
    THEN YouTubeError(ErrorTypeAuth,
             "Authentication failed or insufficient permissions", FALSE, err, "", "")
    ELSE IF Contains(errStr, "rate limit") \/ Contains(errStr, "quota")
    THEN YouTubeError(ErrorTypeRateLimit,
             "Rate limit exceeded or quota exceeded", TRUE, err, "", "")
    ELSE IF Contains(errStr, "network") \/ Contains(errStr, "timeout")
            \/ Contains(errStr, "connection")
    THEN YouTubeError(ErrorTypeNetwork, "Network connectivity issue", TRUE, err, "", "")
    ELSE IF Contains(errStr, "invalid") \/ Contains(errStr, "bad request")
    THEN YouTubeError(ErrorTypeInvalid,
             "Invalid request or malformed data", FALSE, err, "", "")
    ELSE IF Contains(errStr, "server error") \/ Contains(errStr, "internal server")
    THEN YouTubeError(ErrorTypeServer, "YouTube server error", TRUE, err, "", "")
    ELSE IF Contains(errStr, "language") \/ Contains(errStr, "locale")
    THEN YouTubeError(ErrorTypeLanguage, "Language setting error", FALSE, err, "", "")
    ELSE IF Contains(errStr, "upload") \/ Contains(errStr, "video")
    THEN YouTubeError(ErrorTypeUpload, "Video upload error", TRUE, err, "", "")
    ELSE YouTubeError(ErrorTypeUnknown, "Unknown error occurred", FALSE, err, "", "")

CategorizeError_NilIsUnknown(err) ==
    IF err = NIL
    THEN YouTubeError(ErrorTypeUnknown, "Unknown error occurred", FALSE, err, "", "")
    ELSE Categorize(ToLower(ErrorText(err)), err)

CategorizeError_CaseSensitive(err) ==
    IF err = NIL THEN NIL
    ELSE Categorize(ErrorText(err), err)

\* CategorizeError: nil for a nil error, else the case the lowered message
\* selects.
CategorizeError(err) ==
    IF err = NIL THEN NIL
    ELSE Categorize(ToLower(ErrorText(err)), err)

NewLanguageError(language, originalErr) ==
    Ptr([Type          |-> ErrorTypeLanguage,
         Message       |-> "Failed to set language to '" \o language \o "'",
         Retryable     |-> FALSE,
         OriginalError |-> originalErr,
         VideoID       |-> "",
         Language      |-> language])

NewUploadError_Categorized(videoID, originalErr) ==
    IF originalErr = NIL
    THEN YouTubeError(ErrorTypeUpload, "Video upload failed", TRUE, originalErr,
                      videoID, "")
    ELSE LET c == CategorizeError(originalErr)
         IN  YouTubeError(c[1].Type, "Video upload failed", c[1].Retryable,
                          originalErr, videoID, "")

NewUploadError(videoID, originalErr) ==
    YouTubeError(ErrorTypeUpload, "Video upload failed", TRUE, originalErr, videoID, "")

-----------------------------------------------------------------------------
(* metrics.go                                                              *)

ZeroMetrics ==
    [LanguageSetSuccess |-> 0, LanguageSetFailure |-> 0,
     UploadSuccess      |-> 0, UploadFailure      |-> 0,
     LanguageValidation |-> 0, LanguageFallback   |-> 0]

IncLanguageSetSuccess_CountsFailure(m) ==
    [m EXCEPT !.LanguageSetFailure = @ + 1]

IncLanguageSetSuccess(m) == [m EXCEPT !.LanguageSetSuccess = @ + 1]

IncLanguageSetFailure_Twice(m) == [m EXCEPT !.LanguageSetFailure = @ + 2]

IncLanguageSetFailure(m) == [m EXCEPT !.LanguageSetFailure = @ + 1]

IncUploadSuccess_CountsFailure(m) == [m EXCEPT !.UploadFailure = @ + 1]

IncUploadSuccess(m) == [m EXCEPT !.UploadSuccess = @ + 1]

IncUploadFailure(m) == [m EXCEPT !.UploadFailure = @ + 1]

IncLanguageValidation_Twice(m) == [m EXCEPT !.LanguageValidation = @ + 2]

IncLanguageValidation(m) == [m EXCEPT !.LanguageValidation = @ + 1]

IncLanguageFallback_Skipped(m) == m

IncLanguageFallback(m) == [m EXCEPT !.LanguageFallback = @ + 1]

GetLanguageSetSuccess(m) == m.LanguageSetSuccess

GetLanguageSetFailure(m) == m.LanguageSetFailure

GetUploadSuccess(m) == m.UploadSuccess

GetUploadFailure(m) == m.UploadFailure

GetLanguageValidation(m) == m.LanguageValidation

GetLanguageFallback(m) == m.LanguageFallback

GetLanguageSetTotal(m) == GetLanguageSetSuccess(m) + GetLanguageSetFailure(m)

GetUploadTotal(m) == GetUploadSuccess(m) + GetUploadFailure(m)

\* A float64 result is kept as the fraction num/den; 0.0 is 0/1.
Float(num, den) == [num |-> num, den |-> den]

\* The success rates, read with no other call in progress.
GetLanguageSetSuccessRate(m) ==
    LET total == GetLanguageSetTotal(m)
    IN  IF total = 0 THEN Float(0, 1)
        ELSE Float(GetLanguageSetSuccess(m), total)

GetUploadSuccessRate(m) ==
    LET total == GetUploadTotal(m)
    IN  IF total = 0 THEN Float(0, 1)
        ELSE Float(GetUploadSuccess(m), total)

\* The counters the two success rates are computed from.
RateCounters ==
    [LanguageSet |-> [success |-> "LanguageSetSuccess", failure |-> "LanguageSetFailure"],
     Upload      |-> [success |-> "UploadSuccess",      failure |-> "UploadFailure"]]

RateOf_NoZeroCheck(total, success) == Float(success, total)

\* The tail of a success-rate function: the test of the total it has summed
\* and the division of a later load of the success counter by that total.
\* success is only loaded when the total is not 0.
RateOf(total, success) ==
    IF total = 0 THEN Float(0, 1)
    ELSE Float(success, total)

\* The counters in the order Reset stores them.
ResetOrder ==
    <<"LanguageSetSuccess", "LanguageSetFailure", "UploadSuccess",
      "UploadFailure", "LanguageValidation", "LanguageFallback">>

ResetStore_SkipsUploadFailure(m, k) ==
    IF ResetOrder[k] = "UploadFailure" THEN m
    ELSE [m EXCEPT ![ResetOrder[k]] = 0]

\* The k-th atomic.StoreInt64 of Reset.
ResetStore(m, k) == [m EXCEPT ![ResetOrder[k]] = 0]

\* The Inc method of a counter.
IncCounter(m, counter) ==
    CASE counter = "LanguageSetSuccess" -> IncLanguageSetSuccess(m)
      [] counter = "LanguageSetFailure" -> IncLanguageSetFailure(m)
      [] counter = "UploadSuccess"      -> IncUploadSuccess(m)
      [] counter = "UploadFailure"      -> IncUploadFailure(m)
      [] counter = "LanguageValidation" -> IncLanguageValidation(m)
      [] counter = "LanguageFallback"   -> IncLanguageFallback(m)

-----------------------------------------------------------------------------
(* storage.Video helpers                                                   *)

\* Video.GetLanguage: the item's Language when it is not empty, else the
\* default; an absent item yields the default.
GetLanguage(v, defaultLanguage) ==
    IF v = NIL THEN defaultLanguage
    ELSE IF v[1].Language # "" THEN v[1].Language ELSE defaultLanguage

\* Video.GetAudioLanguage: the same for AudioLanguage.
GetAudioLanguage(v, defaultLanguage) ==
    IF v = NIL THEN defaultLanguage
    ELSE IF v[1].AudioLanguage # "" THEN v[1].AudioLanguage ELSE defaultLanguage

-----------------------------------------------------------------------------
(* language handler                                                        *)

EmptySnippet == [Title |-> "", DefaultLanguage |-> "", DefaultAudioLanguage |-> ""]

setLanguageSafely_RejectsUnregistered(ytv, language, audioLanguage) ==
    IF ytv = NIL \/ ~IsValidLanguage(language)
    THEN [youtubeVideo |-> ytv, err |-> NewLanguageError(language, NIL)]
    ELSE LET withSnippet == IF ytv[1].Snippet = NIL
                            THEN [ytv[1] EXCEPT !.Snippet = Ptr(EmptySnippet)]
                            ELSE ytv[1]
         IN  [youtubeVideo |->
                  Ptr([withSnippet EXCEPT
                          !.Snippet = Ptr([withSnippet.Snippet[1] EXCEPT
                                              !.DefaultLanguage = language,
                                              !.DefaultAudioLanguage = audioLanguage])]),
              err |-> NIL]

setLanguageSafely_Swapped(ytv, language, audioLanguage) ==
    IF ytv = NIL
    THEN [youtubeVideo |-> ytv, err |-> NewLanguageError(language, NIL)]
    ELSE LET snippet == IF ytv[1].Snippet = NIL THEN EmptySnippet
                        ELSE ytv[1].Snippet[1]
         IN  [youtubeVideo |->
                 Ptr([ytv[1] EXCEPT !.Snippet =
                        Ptr([snippet EXCEPT !.DefaultLanguage = audioLanguage,
                                            !.DefaultAudioLanguage = language])]),
              err |-> NIL]

setLanguageSafely_FailsWithoutSnippet(ytv, language, audioLanguage) ==
    IF ytv = NIL \/ ytv[1].Snippet = NIL
    THEN [youtubeVideo |-> ytv, err |-> NewLanguageError(language, NIL)]
    ELSE [youtubeVideo |->
             Ptr([ytv[1] EXCEPT !.Snippet =
                    Ptr([ytv[1].Snippet[1] EXCEPT
                            !.DefaultLanguage = language,
                            !.DefaultAudioLanguage = audioLanguage])]),
          err |-> NIL]

\* setLanguageSafely: the record after the call and the error returned.
setLanguageSafely(ytv, language, audioLanguage) ==
    IF ytv = NIL
    THEN [youtubeVideo |-> ytv, err |-> NewLanguageError(language, NIL)]
    ELSE LET snippet == IF ytv[1].Snippet = NIL THEN EmptySnippet
                        ELSE ytv[1].Snippet[1]
         IN  [youtubeVideo |->
                 Ptr([ytv[1] EXCEPT !.Snippet =
                        Ptr([snippet EXCEPT !.DefaultLanguage = language,
                                            !.DefaultAudioLanguage = audioLanguage])]),
              err |-> NIL]

FallbackIfInvalid_KeepsCode(m, code, defaultLanguage) ==
    IF ~IsValidLanguage(code)
    THEN [metrics |-> IncLanguageFallback(m), code |-> code]
    ELSE [metrics |-> m, code |-> code]

\* The validation block of one field (lines 20-24; the same block is
\* repeated for the audio field at 26-30 and in GetLanguageWithFallback at
\* 94-98 and 100-104): an unregistered code counts one fallback and is
\* replaced by the default, which is not validated.
FallbackIfInvalid(m, code, defaultLanguage) ==
    IF ~IsValidLanguage(code)
    THEN [metrics |-> IncLanguageFallback(m), code |-> defaultLanguage]
    ELSE [metrics |-> m, code |-> code]

\* Lines 33-52: apply the two codes; on an error count a failure and apply
\* the default to both fields, counting a failure or a success.
ApplyLanguage(m, ytv, language, audioLanguage, defaultLanguage) ==
    LET first == setLanguageSafely(ytv, language, audioLanguage)
    IN  IF first.err # NIL
        THEN LET m1     == IncLanguageSetFailure(m)
                 second == setLanguageSafely(first.youtubeVideo,
                                             defaultLanguage, defaultLanguage)
             IN  IF second.err # NIL
                 THEN [metrics      |-> IncLanguageSetFailure(m1),
                       youtubeVideo |-> second.youtubeVideo,
                       err          |-> first.err,
                       fallbackErr  |-> second.err,
                       logged       |-> NewLanguageError(defaultLanguage, second.err),
                       attempts     |-> 2]
                 ELSE [metrics      |-> IncLanguageSetSuccess(m1),
                       youtubeVideo |-> second.youtubeVideo,
                       err          |-> first.err,
                       fallbackErr  |-> NIL,
                       logged       |-> NIL,
                       attempts     |-> 2]
        ELSE [metrics      |-> IncLanguageSetSuccess(m),
              youtubeVideo |-> first.youtubeVideo,
              err          |-> NIL,
              fallbackErr  |-> NIL,
              logged       |-> NIL,
              attempts     |-> 1]

StoreApplied_OverwritesRequested(v, language, audioLanguage, defaultLanguage) ==
    IF v = NIL
    THEN [video |-> v, panic |-> TRUE]
    ELSE [video |-> Ptr([v[1] EXCEPT !.Language = language,
                                     !.AudioLanguage = audioLanguage,
                                     !.AppliedLanguage = language,
                                     !.AppliedAudioLanguage = audioLanguage]),
          panic |-> FALSE]

StoreApplied_DefaultOnly(v, language, audioLanguage, defaultLanguage) ==
    IF v = NIL
    THEN [video |-> v, panic |-> TRUE]
    ELSE [video |-> Ptr([v[1] EXCEPT !.AppliedLanguage = defaultLanguage,
                                     !.AppliedAudioLanguage = defaultLanguage]),
          panic |-> FALSE]

\* Lines 55-56: the two assignments through the item pointer; through a nil
\* pointer the first assignment is a nil dereference, a run-time panic.
StoreApplied(v, language, audioLanguage, defaultLanguage) ==
    IF v = NIL
    THEN [video |-> v, panic |-> TRUE]
    ELSE [video |-> Ptr([v[1] EXCEPT !.AppliedLanguage = language,
                                     !.AppliedAudioLanguage = audioLanguage]),
          panic |-> FALSE]

\* ValidateAndSetLanguage as a function of its arguments and the counters:
\* the counters, record and item after the call, the value returned (NIL is
\* "no error"; nothing is returned when the call panics) and what it did.
ValidateAndSetLanguage(m, ytv, v, defaultLanguage) ==
    LET language      == GetLanguage(v, defaultLanguage)
        audioLanguage == GetAudioLanguage(v, defaultLanguage)
        m1      == IncLanguageValidation(m)
        f1      == FallbackIfInvalid(m1, language, defaultLanguage)
        f2      == FallbackIfInvalid(f1.metrics, audioLanguage, defaultLanguage)
        applied == ApplyLanguage(f2.metrics, ytv, f1.code, f2.code, defaultLanguage)
        stored  == StoreApplied(v, f1.code, f2.code, defaultLanguage)
    IN  [metrics       |-> applied.metrics,
         youtubeVideo  |-> applied.youtubeVideo,
         video         |-> stored.video,
         panic         |-> stored.panic,
         ret           |-> NIL,
         requested     |-> <<language, audioLanguage>>,
         language      |-> f1.code,
         audioLanguage |-> f2.code,
         err           |-> applied.err,
         fallbackErr   |-> applied.fallbackErr,
         logged        |-> applied.logged,
         attempts      |-> applied.attempts]

\* ValidateLanguageCode: nil for a registered code, a language error otherwise.
ValidateLanguageCode(language) ==
    IF ~IsValidLanguage(language) THEN NewLanguageError(language, NIL)
    ELSE NIL

GetLanguageWithFallback_AudioFromLanguage(m, v, defaultLanguage) ==
    LET language      == GetLanguage(v, defaultLanguage)
        audioLanguage == GetLanguage(v, defaultLanguage)
        f1 == FallbackIfInvalid(m, language, defaultLanguage)
        f2 == FallbackIfInvalid(f1.metrics, audioLanguage, defaultLanguage)
    IN  [metrics       |-> f2.metrics,
         requested     |-> <<language, audioLanguage>>,
         language      |-> f1.code,
         audioLanguage |-> f2.code]

\* GetLanguageWithFallback: the pair returned and the counters after it.
GetLanguageWithFallback(m, v, defaultLanguage) ==
    LET language      == GetLanguage(v, defaultLanguage)
        audioLanguage == GetAudioLanguage(v, defaultLanguage)
        f1 == FallbackIfInvalid(m, language, defaultLanguage)
        f2 == FallbackIfInvalid(f1.metrics, audioLanguage, defaultLanguage)
    IN  [metrics       |-> f2.metrics,
         requested     |-> <<language, audioLanguage>>,
         language      |-> f1.code,
         audioLanguage |-> f2.code]

-----------------------------------------------------------------------------
(* storage: the per-item document and the index document                   *)

\* The Video values handed to WriteVideo: one with every field populated
\* and the applied locale pair different from the requested one, and one with
\* other values, of which some are empty.
StoredVideos ==
    { [Name |-> "test-video", ProjectName |-> "Test Project",
       Sponsorship |-> [Amount |-> "1000", Emails |-> "sponsor@example.com",
                        Blocked |-> "false"],
       Language |-> "es", AudioLanguage |-> "fr",
       AppliedLanguage |-> "en", AppliedAudioLanguage |-> "de"],
      [Name |-> "Test Write Video", ProjectName |-> "",
       Sponsorship |-> [Amount |-> "", Emails |-> "", Blocked |-> "true"],
       Language |-> "", AudioLanguage |-> "en",
       AppliedLanguage |-> "fr", AppliedAudioLanguage |-> ""] }

ZeroVideo ==
    [Name |-> "", ProjectName |-> "",
     Sponsorship |-> [Amount |-> "", Emails |-> "", Blocked |-> ""],
     Language |-> "", AudioLanguage |-> "",
     AppliedLanguage |-> "", AppliedAudioLanguage |-> ""]

\* The entries of the index, and the indexes handed to WriteIndex.
IndexEntry1 == [Name |-> "Test Video 1", Category |-> "testing"]

IndexEntry2 == [Name |-> "Test Video 2", Category |-> "other"]

StoredIndexes ==
    { <<>>, <<IndexEntry1, IndexEntry2>>, <<IndexEntry2, IndexEntry1>> }

\* A document is a sequence of <<key, value>> entries in wire order; the
\* value of a nested mapping is such a sequence again.
Has(doc, key) == \E i \in 1..Len(doc) : doc[i][1] = key

Lookup(doc, key, zero) ==
    IF Has(doc, key)
    THEN doc[CHOOSE i \in 1..Len(doc) : doc[i][1] = key][2]
    ELSE zero

MarshalSponsorship(sp) ==
    << <<"amount", sp.Amount>>, <<"emails", sp.Emails>>, <<"blocked", sp.Blocked>> >>

MarshalVideo_DropsApplied(v) ==
    << <<"name", v.Name>>,
       <<"projectName", v.ProjectName>>,
       <<"sponsorship", MarshalSponsorship(v.Sponsorship)>>,
       <<"language", v.Language>>,
       <<"audioLanguage", v.AudioLanguage>> >>

\* The per-item document of a Video: every field under its lower-camel-case
\* wire name.
MarshalVideo(v) ==
    << <<"name", v.Name>>,
       <<"projectName", v.ProjectName>>,
       <<"sponsorship", MarshalSponsorship(v.Sponsorship)>>,
       <<"language", v.Language>>,
       <<"audioLanguage", v.AudioLanguage>>,
       <<"appliedLanguage", v.AppliedLanguage>>,
       <<"appliedAudioLanguage", v.AppliedAudioLanguage>> >>

UnmarshalSponsorship(doc) ==
    [Amount  |-> Lookup(doc, "amount", ""),
     Emails  |-> Lookup(doc, "emails", ""),
     Blocked |-> Lookup(doc, "blocked", "")]

\* Decoding reads each field from its wire name; a key that is absent leaves
\* the field at its zero value.
UnmarshalVideo(doc) ==
    [Name                 |-> Lookup(doc, "name", ""),
     ProjectName          |-> Lookup(doc, "projectName", ""),
     Sponsorship          |-> UnmarshalSponsorship(Lookup(doc, "sponsorship", <<>>)),
     Language             |-> Lookup(doc, "language", ""),
     AudioLanguage        |-> Lookup(doc, "audioLanguage", ""),
     AppliedLanguage      |-> Lookup(doc, "appliedLanguage", ""),
     AppliedAudioLanguage |-> Lookup(doc, "appliedAudioLanguage", "")]

MarshalIndexEntry(e) == << <<"name", e.Name>>, <<"category", e.Category>> >>

UnmarshalIndexEntry(doc) ==
    [Name |-> Lookup(doc, "name", ""), Category |-> Lookup(doc, "category", "")]

MarshalIndex_Sorted(index) ==
    IF Len(index) = 2 /\ index[1] = IndexEntry2 /\ index[2] = IndexEntry1
    THEN <<MarshalIndexEntry(index[2]), MarshalIndexEntry(index[1])>>
    ELSE [i \in 1..Len(index) |-> MarshalIndexEntry(index[i])]

\* The index document: the list of the entries' mappings, in order.
MarshalIndex(index) == [i \in 1..Len(index) |-> MarshalIndexEntry(index[i])]

UnmarshalIndex(doc) == [i \in 1..Len(doc) |-> UnmarshalIndexEntry(doc[i])]

\* What a file holds: a document (the mapping of an item or the list of the
\* index), or bytes that do not parse.
Document(kind, doc) == [malformed |-> FALSE, kind |-> kind, doc |-> doc]

Malformed == [malformed |-> TRUE]

\* The failures of loading; Cause is the failure wrapped.
NotFoundError == Ptr([Kind |-> "NotFound", Cause |-> "file does not exist"])

DecodeError(what) ==
    Ptr([Kind |-> "DecodeError", Message |-> "failed to unmarshal " \o what,
         Cause |-> "parse error"])

GetVideo_MissingIsZeroVideo(content) ==
    IF content = NIL THEN [video |-> Ptr(ZeroVideo), err |-> NIL]
    ELSE IF content[1].malformed \/ content[1].kind # "video"
    THEN [video |-> NIL, err |-> DecodeError("video data")]
    ELSE [video |-> Ptr(UnmarshalVideo(content[1].doc)), err |-> NIL]

\* GetVideo on what is at the path: NIL when nothing is there.
GetVideo(content) ==
    IF content = NIL THEN [video |-> NIL, err |-> NotFoundError]
    ELSE IF content[1].malformed \/ content[1].kind # "video"
    THEN [video |-> NIL, err |-> DecodeError("video data")]
    ELSE [video |-> Ptr(UnmarshalVideo(content[1].doc)), err |-> NIL]

\* GetIndex on what is at the index path.
GetIndex(content) ==
    IF content = NIL THEN [index |-> NIL, err |-> NotFoundError]
    ELSE IF content[1].malformed \/ content[1].kind # "index"
    THEN [index |-> NIL, err |-> DecodeError("video index")]
    ELSE [index |-> Ptr(UnmarshalIndex(content[1].doc)), err |-> NIL]

WriteFile_KeepsOtherKeys(old, content) ==
    IF \/ old = NIL
       \/ content.malformed
       \/ content.kind # "video"
       \/ old[1].malformed
       \/ old[1].kind # "video"
    THEN Ptr(content)
    ELSE Ptr(Document("video",
             [i \in 1..Len(content.doc) |->
                 IF i <= Len(old[1].doc) /\ content.doc[i][2] = ""
                 THEN old[1].doc[i] ELSE content.doc[i]]))

\* Writing a file replaces whatever was at the path by the whole content.
WriteFile(old, content) == Ptr(content)

\* The paths of two items and of the index.
ItemPaths == {"a.yaml", "b.yaml"}

IndexPath == "index.yaml"

Paths == ItemPaths \cup {IndexPath}

\* The callers that save.
Savers == {"s1", "s2"}

Idle == [pc |-> "idle"]

NoStoreCall == [op |-> "none"]

NotCalled == [pc |-> "call"]

StoreInit ==
    /\ files = [p \in Paths |-> NIL]
    /\ savers = [s \in Savers |-> Idle]
    /\ lastSaved = [p \in Paths |-> NIL]
    /\ storeCall = NoStoreCall
    /\ invocations = [g \in 1..NumGoroutines |-> NotCalled]

-----------------------------------------------------------------------------
(* the state machine                                                       *)

Videos ==
    {NIL} \cup
    { Ptr([Language |-> l, AudioLanguage |-> a,
           AppliedLanguage |-> "", AppliedAudioLanguage |-> ""]) :
      l \in Codes, a \in Codes }

YouTubeVideos ==
    {NIL, Ptr([Snippet |-> NIL])} \cup
    { Ptr([Snippet |-> Ptr([EmptySnippet EXCEPT !.Title = t])]) : t \in Titles }

\* What the goroutines run: the loop of TestMetrics_ConcurrentAccess over two
\* Inc calls, and the six Inc calls TestMetrics_Reset makes once.
Programs ==
    { [body       |-> <<"LanguageSetSuccess", "UploadSuccess">>,
       iterations |-> IncrementsPerGoroutine],
      [body       |-> <<"LanguageSetSuccess", "LanguageSetFailure", "UploadSuccess",
                        "UploadFailure", "LanguageValidation", "LanguageFallback">>,
       iterations |-> 1] }

NoProgram == [body |-> <<>>, iterations |-> 0]

NoRateCall == [pc |-> "none"]

NoCall == [op |-> "none"]

Init ==
    /\ YouTubeMetrics = ZeroMetrics
    /\ video \in Videos
    /\ youtubeVideo \in YouTubeVideos
    /\ call = NoCall
    /\ appliedDefault = NIL
    /\ panicked = FALSE
    /\ errCalls = <<>>
    /\ program = NoProgram
    /\ done = [w \in 1..NumGoroutines |-> 0]
    /\ resetPc = 0
    /\ late = [c \in DOMAIN ZeroMetrics |-> 0]
    /\ rateCall = NoRateCall
    /\ StoreInit

CallValidateAndSetLanguage ==
    /\ ~panicked
    /\ YouTubeMetrics.LanguageValidation < MaxCalls
    /\ \E defaultLanguage \in Codes :
         LET r == ValidateAndSetLanguage(YouTubeMetrics, youtubeVideo, video,
                                         defaultLanguage)
         IN  /\ YouTubeMetrics' = r.metrics
             /\ youtubeVideo' = r.youtubeVideo
             /\ video' = r.video
             /\ panicked' = r.panic
             /\ appliedDefault' = IF r.panic THEN appliedDefault
                                  ELSE Ptr(defaultLanguage)
             /\ call' = [op              |-> "ValidateAndSetLanguage",
                         defaultLanguage |-> defaultLanguage,
                         videoBefore     |-> video,
                         youtubeBefore   |-> youtubeVideo,
                         metricsBefore   |-> YouTubeMetrics,
                         result          |-> r]
             /\ UNCHANGED <<errCalls, concVars, storeVars, invocations>>

CallGetLanguageWithFallback ==
    /\ ~panicked
    /\ YouTubeMetrics.LanguageFallback < 2 * MaxCalls
    /\ \E defaultLanguage \in Codes :
         LET r == GetLanguageWithFallback(YouTubeMetrics, video, defaultLanguage)
         IN  /\ YouTubeMetrics' = r.metrics
             /\ call' = [op              |-> "GetLanguageWithFallback",
                         defaultLanguage |-> defaultLanguage,
                         videoBefore     |-> video,
                         youtubeBefore   |-> youtubeVideo,
                         metricsBefore   |-> YouTubeMetrics,
                         result          |-> r]
             /\ UNCHANGED <<video, youtubeVideo, appliedDefault, panicked, errCalls, concVars, storeVars, invocations>>

\* Metrics.Reset, called with no other call in progress.
Reset ==
    /\ ~panicked
    /\ YouTubeMetrics # ZeroMetrics
    /\ YouTubeMetrics' = ZeroMetrics
    /\ call' = [op |-> "Reset", metricsBefore |-> YouTubeMetrics]
    /\ UNCHANGED <<video, youtubeVideo, appliedDefault, panicked, errCalls, concVars, storeVars, invocations>>

Next ==
    \/ CallValidateAndSetLanguage
    \/ CallGetLanguageWithFallback
    \/ Reset

Spec == Init /\ [][Next]_vars

-----------------------------------------------------------------------------
(* calls into errors.go                                                    *)

\* Messages of the errors handed to CategorizeError: those of the
\* repository's tests, single keywords, messages with keywords of several
\* rules, mixed case, and the empty message.
ErrorMessages ==
    {"authentication failed", "rate limit exceeded", "network timeout",
     "invalid request", "internal server error", "language setting failed",
     "video upload failed", "some random error", "",
     "AUTHENTICATION FAILED", "Rate Limit Exceeded", "Invalid Request",
     "SERVER ERROR", "Language Setting Failed", "VIDEO UPLOAD FAILED",
     "invalid language", "Invalid Language", "video upload timeout",
     "Video Upload Timeout", "unauthorized", "quota", "connection",
     "bad request", "locale", "upload", "Quota: unauthorized"}

\* Causes handed to the constructors and wrapped by classified errors.
Causes ==
    {NIL, NewError("original error"), NewError("network timeout"),
     NewError("Invalid Language")}

VideoIDs == {"", "test-video-123"}

ErrorTypes ==
    {ErrorTypeAuth, ErrorTypeRateLimit, ErrorTypeNetwork, ErrorTypeInvalid,
     ErrorTypeServer, ErrorTypeLanguage, ErrorTypeUpload, ErrorTypeUnknown,
     ErrorTypeInternal}

\* The error values handed to CategorizeError: nil, plain errors, and
\* classified errors (whose message is their Error() string).
ErrorInputs ==
    {NIL} \cup {NewError(t) : t \in ErrorMessages}
          \cup {NewLanguageError("en", NIL),
                NewUploadError("test-video-123", NewError("quota"))}

\* The classified errors whose string form is taken.
YouTubeErrors ==
    { YouTubeError(t, m, FALSE, c, "", "") :
        t \in ErrorTypes,
        m \in {"Authentication failed", "Language setting failed"},
        c \in Causes \cup {NewLanguageError("fr", NewError("original error"))} }

\* errCalls after the call c: c, followed by the CategorizeError call it
\* follows directly, if c is a CategorizeError call too.
Recorded(c) ==
    IF /\ c.op = "CategorizeError"
       /\ errCalls # <<>>
       /\ errCalls[1].op = "CategorizeError"
    THEN <<c, errCalls[1]>>
    ELSE <<c>>

CallCategorizeError ==
    /\ \E err \in ErrorInputs :
         errCalls' = Recorded([op     |-> "CategorizeError",
                               err    |-> err,
                               result |-> CategorizeError(err)])
    /\ UNCHANGED <<YouTubeMetrics, video, youtubeVideo, call, appliedDefault, panicked,
                   concVars, storeVars, invocations>>

CallNewLanguageError ==
    /\ \E language \in Codes, originalErr \in Causes :
         errCalls' = Recorded([op       |-> "NewLanguageError",
                               language |-> language,
                               err      |-> originalErr,
                               result   |-> NewLanguageError(language, originalErr)])
    /\ UNCHANGED <<YouTubeMetrics, video, youtubeVideo, call, appliedDefault, panicked,
                   concVars, storeVars, invocations>>

CallNewUploadError ==
    /\ \E videoID \in VideoIDs, originalErr \in Causes :
         errCalls' = Recorded([op      |-> "NewUploadError",
                               videoID |-> videoID,
                               err     |-> originalErr,
                               result  |-> NewUploadError(videoID, originalErr)])
    /\ UNCHANGED <<YouTubeMetrics, video, youtubeVideo, call, appliedDefault, panicked,
                   concVars, storeVars, invocations>>

CallError ==
    /\ \E e \in YouTubeErrors :
         errCalls' = Recorded([op     |-> "Error",
                               err    |-> e,
                               result |-> Error(e)])
    /\ UNCHANGED <<YouTubeMetrics, video, youtubeVideo, call, appliedDefault, panicked,
                   concVars, storeVars, invocations>>

\* The codes TestValidateLanguageCode passes.
TestedCodes == {"en", "es", "fr", "invalid", "", "english"}

CallValidateLanguageCode ==
    /\ \E language \in TestedCodes :
         errCalls' = Recorded([op       |-> "ValidateLanguageCode",
                               language |-> language,
                               result   |-> ValidateLanguageCode(language)])
    /\ UNCHANGED <<YouTubeMetrics, video, youtubeVideo, call, appliedDefault, panicked,
                   concVars, storeVars, invocations>>

InitErr ==
    /\ Init
    /\ video = NIL
    /\ youtubeVideo = NIL

NextErr ==
    \/ CallCategorizeError
    \/ CallNewLanguageError
    \/ CallNewUploadError
    \/ CallError
    \/ CallValidateLanguageCode

SpecErr == InitErr /\ [][NextErr]_vars

-----------------------------------------------------------------------------
(* goroutines incrementing the counters while Reset runs                   *)

Goroutines == 1..NumGoroutines

\* Whether the Reset in progress has stored the counter.
Stored(counter) ==
    \E k \in 1..resetPc : ResetOrder[k] = counter

Finished(w) == done[w] = program.iterations * Len(program.body)

InitConc ==
    /\ YouTubeMetrics = ZeroMetrics
    /\ video = NIL
    /\ youtubeVideo = NIL
    /\ call = NoCall
    /\ appliedDefault = NIL
    /\ panicked = FALSE
    /\ errCalls = <<>>
    /\ program \in Programs
    /\ done = [w \in Goroutines |-> 0]
    /\ resetPc = 0
    /\ late = [c \in DOMAIN ZeroMetrics |-> 0]
    /\ rateCall = NoRateCall
    /\ StoreInit

\* One Inc call of goroutine w: a single atomic.AddInt64.
GoroutineInc(w) ==
    /\ ~Finished(w)
    /\ LET counter == program.body[(done[w] % Len(program.body)) + 1]
       IN  /\ YouTubeMetrics' = IncCounter(YouTubeMetrics, counter)
           /\ late' = IF Stored(counter)
                      THEN [late EXCEPT ![counter] = @ + 1]
                      ELSE late
    /\ done' = [done EXCEPT ![w] = @ + 1]
    /\ UNCHANGED <<video, youtubeVideo, call, appliedDefault, panicked, errCalls, storeVars, invocations,
                   program, resetPc, rateCall>>

\* The next atomic.StoreInt64 of the one Reset call running beside them.
ResetStep ==
    /\ resetPc < Len(ResetOrder)
    /\ YouTubeMetrics' = ResetStore(YouTubeMetrics, resetPc + 1)
    /\ resetPc' = resetPc + 1
    /\ UNCHANGED <<video, youtubeVideo, call, appliedDefault, panicked, errCalls, storeVars, invocations,
                   program, done, late, rateCall>>

NextConc ==
    \/ \E w \in Goroutines : GoroutineInc(w)
    \/ ResetStep

SpecConc == InitConc /\ [][NextConc]_vars

-----------------------------------------------------------------------------
(* concurrent invocations of ValidateAndSetLanguage                        *)

\* The arguments of the invocations. Each invocation has an outbound record
\* and an item of its own; the counters are what the invocations share.
PipeInputs ==
    [youtubeVideo    : {NIL, Ptr([Snippet |-> NIL])},
     video           : {NIL} \cup
                       { Ptr([Language |-> c[1], AudioLanguage |-> c[2],
                              AppliedLanguage |-> "", AppliedAudioLanguage |-> ""]) :
                         c \in {<<"en", "en">>, <<"invalid", "">>, <<"invalid", "fr">>} },
     defaultLanguage : {"en", "invalid"}]

PipeUnchanged ==
    UNCHANGED <<video, youtubeVideo, call, appliedDefault, errCalls, concVars, storeVars>>

\* Lines 13-17: the requested codes are read and the validation is counted.
PipeValidation(g) ==
    /\ ~panicked
    /\ invocations[g].pc = "call"
    /\ \E in \in PipeInputs :
         invocations' =
             [invocations EXCEPT ![g] =
                 [pc              |-> "language",
                  youtubeVideo    |-> in.youtubeVideo,
                  video           |-> in.video,
                  defaultLanguage |-> in.defaultLanguage,
                  language        |-> GetLanguage(in.video, in.defaultLanguage),
                  audioLanguage   |-> GetAudioLanguage(in.video, in.defaultLanguage)]]
    /\ YouTubeMetrics' = IncLanguageValidation(YouTubeMetrics)
    /\ UNCHANGED panicked
    /\ PipeUnchanged

\* Lines 20-24: the language code is checked, a fallback counted.
PipeLanguage(g) ==
    /\ ~panicked
    /\ invocations[g].pc = "language"
    /\ LET r == FallbackIfInvalid(YouTubeMetrics, invocations[g].language,
                                  invocations[g].defaultLanguage)
       IN  /\ YouTubeMetrics' = r.metrics
           /\ invocations' = [invocations EXCEPT ![g].language = r.code,
                                                 ![g].pc = "audioLanguage"]
    /\ UNCHANGED panicked
    /\ PipeUnchanged

\* Lines 26-30: the audio language code is checked, a fallback counted.
PipeAudioLanguage(g) ==
    /\ ~panicked
    /\ invocations[g].pc = "audioLanguage"
    /\ LET r == FallbackIfInvalid(YouTubeMetrics, invocations[g].audioLanguage,
                                  invocations[g].defaultLanguage)
       IN  /\ YouTubeMetrics' = r.metrics
           /\ invocations' = [invocations EXCEPT ![g].audioLanguage = r.code,
                                                 ![g].pc = "apply"]
    /\ UNCHANGED panicked
    /\ PipeUnchanged

\* Lines 33-37 and 49-52: the codes are applied; a failure or a success is
\* counted.
PipeApply(g) ==
    /\ ~panicked
    /\ invocations[g].pc = "apply"
    /\ LET first == setLanguageSafely(invocations[g].youtubeVideo,
                                      invocations[g].language,
                                      invocations[g].audioLanguage)
       IN  /\ YouTubeMetrics' = IF first.err # NIL
                                THEN IncLanguageSetFailure(YouTubeMetrics)
                                ELSE IncLanguageSetSuccess(YouTubeMetrics)
           /\ invocations' = [invocations EXCEPT
                                 ![g].youtubeVideo = first.youtubeVideo,
                                 ![g].pc = IF first.err # NIL THEN "fallback"
                                           ELSE "store"]
    /\ UNCHANGED panicked
    /\ PipeUnchanged

\* Lines 40-48: the default is applied to both fields; a failure or a
\* success is counted.
PipeFallback(g) ==
    /\ ~panicked
    /\ invocations[g].pc = "fallback"
    /\ LET second == setLanguageSafely(invocations[g].youtubeVideo,
                                       invocations[g].defaultLanguage,
                                       invocations[g].defaultLanguage)
       IN  /\ YouTubeMetrics' = IF second.err # NIL
                                THEN IncLanguageSetFailure(YouTubeMetrics)
                                ELSE IncLanguageSetSuccess(YouTubeMetrics)
           /\ invocations' = [invocations EXCEPT
                                 ![g].youtubeVideo = second.youtubeVideo,
                                 ![g].pc = "store"]
    /\ UNCHANGED panicked
    /\ PipeUnchanged

\* Lines 55-58: the applied codes are written to the item and the call
\* returns; with a nil item the write panics and the process ends.
PipeStore(g) ==
    /\ ~panicked
    /\ invocations[g].pc = "store"
    /\ LET stored == StoreApplied(invocations[g].video,
                                  invocations[g].language,
                                  invocations[g].audioLanguage,
                                  invocations[g].defaultLanguage)
       IN  /\ panicked' = stored.panic
           /\ invocations' = [invocations EXCEPT
                                 ![g] = IF stored.panic THEN @
                                        ELSE [pc |-> "returned", video |-> stored.video]]
    /\ UNCHANGED YouTubeMetrics
    /\ PipeUnchanged

InitPipe == InitErr

NextPipe ==
    \E g \in Goroutines :
        \/ PipeValidation(g)
        \/ PipeLanguage(g)
        \/ PipeAudioLanguage(g)
        \/ PipeApply(g)
        \/ PipeFallback(g)
        \/ PipeStore(g)

SpecPipe == InitPipe /\ [][NextPipe]_vars

-----------------------------------------------------------------------------
(* calls into the persistence layer                                        *)

StoreUnchanged ==
    UNCHANGED <<YouTubeMetrics, video, youtubeVideo, call, appliedDefault, panicked,
                errCalls, concVars, invocations>>

\* The savers once s has entered a save: it has serialized the value it was
\* given. overlap notes that another save to the same path was in progress
\* meanwhile.
Entered(s, op, path, value, content) ==
    LET meanwhile == {t \in Savers : savers[t].pc = "write" /\ savers[t].path = path}
    IN  [t \in Savers |->
            IF t = s
            THEN [pc |-> "write", op |-> op, path |-> path, value |-> value,
                  content |-> content, overlap |-> meanwhile # {}]
            ELSE IF t \in meanwhile
            THEN [savers[t] EXCEPT !.overlap = TRUE]
            ELSE savers[t]]

BeginWriteVideo(s, v, path) ==
    /\ savers[s].pc = "idle"
    /\ savers' = Entered(s, "WriteVideo", path, v, Document("video", MarshalVideo(v)))
    /\ UNCHANGED <<files, lastSaved, storeCall>>
    /\ StoreUnchanged

BeginWriteIndex(s, index) ==
    /\ savers[s].pc = "idle"
    /\ savers' = Entered(s, "WriteIndex", IndexPath, index,
                         Document("index", MarshalIndex(index)))
    /\ UNCHANGED <<files, lastSaved, storeCall>>
    /\ StoreUnchanged

\* The save writes the file and returns.
CompleteWrite(s) ==
    /\ savers[s].pc = "write"
    /\ LET path == savers[s].path
       IN  /\ files' = [files EXCEPT ![path] = WriteFile(files[path], savers[s].content)]
           /\ lastSaved' = [lastSaved EXCEPT ![path] = Ptr(savers[s].value)]
           /\ storeCall' = [op       |-> savers[s].op,
                            path     |-> path,
                            overlap  |-> savers[s].overlap]
    /\ savers' = [savers EXCEPT ![s] = Idle]
    /\ StoreUnchanged

\* Bytes that do not parse are put at a path, as the InvalidYAML tests do.
WriteMalformed(path) ==
    /\ files' = [files EXCEPT ![path] = Ptr(Malformed)]
    /\ lastSaved' = [lastSaved EXCEPT ![path] = NIL]
    /\ storeCall' = [op |-> "WriteFile", path |-> path]
    /\ UNCHANGED savers
    /\ StoreUnchanged

FileState(content) ==
    IF content = NIL THEN "missing"
    ELSE IF content[1].malformed THEN "malformed"
    ELSE "document"

CallGetVideo(path) ==
    /\ storeCall' = [op     |-> "GetVideo",
                     path   |-> path,
                     file   |-> FileState(files[path]),
                     saved  |-> lastSaved[path],
                     result |-> GetVideo(files[path])]
    /\ UNCHANGED <<files, savers, lastSaved>>
    /\ StoreUnchanged

CallGetIndex ==
    /\ storeCall' = [op     |-> "GetIndex",
                     path   |-> IndexPath,
                     file   |-> FileState(files[IndexPath]),
                     saved  |-> lastSaved[IndexPath],
                     result |-> GetIndex(files[IndexPath])]
    /\ UNCHANGED <<files, savers, lastSaved>>
    /\ StoreUnchanged

InitStore == InitErr

NextStore ==
    \/ \E s \in Savers, v \in StoredVideos, path \in ItemPaths : BeginWriteVideo(s, v, path)
    \/ \E s \in Savers, index \in StoredIndexes : BeginWriteIndex(s, index)
    \/ \E s \in Savers : CompleteWrite(s)
    \/ \E path \in Paths : WriteMalformed(path)
    \/ \E path \in ItemPaths : CallGetVideo(path)
    \/ CallGetIndex

SpecStore == InitStore /\ [][NextStore]_vars

-----------------------------------------------------------------------------
(* a success rate read while the counters change                           *)

\* The goroutines increment the two counters one of the rates is computed
\* from, as TestMetrics_SuccessRates does.
RatePrograms ==
    { [body       |-> <<RateCounters[fn].success, RateCounters[fn].failure>>,
       iterations |-> 1] : fn \in DOMAIN RateCounters }

\* The number of Inc calls and Reset stores completed so far.
RECURSIVE IncsDone(_)

IncsDone(w) == IF w = 0 THEN 0 ELSE done[w] + IncsDone(w - 1)

Mutations == IncsDone(NumGoroutines) + resetPc

InitRate ==
    /\ YouTubeMetrics = ZeroMetrics
    /\ video = NIL
    /\ youtubeVideo = NIL
    /\ call = NoCall
    /\ appliedDefault = NIL
    /\ panicked = FALSE
    /\ errCalls = <<>>
    /\ program \in RatePrograms
    /\ done = [w \in Goroutines |-> 0]
    /\ resetPc = 0
    /\ late = [c \in DOMAIN ZeroMetrics |-> 0]
    /\ rateCall = NoRateCall
    /\ StoreInit

RateUnchanged ==
    UNCHANGED <<YouTubeMetrics, video, youtubeVideo, call, appliedDefault, panicked,
                errCalls, program, done, resetPc, late, storeVars, invocations>>

\* A success-rate function is called and, inside Get...Total, loads the
\* success counter.
RateLoadSuccess(fn) ==
    /\ rateCall.pc \in {"none", "returned"}
    /\ rateCall' = [pc      |-> "failure",
                    fn      |-> fn,
                    success |-> YouTubeMetrics[RateCounters[fn].success],
                    began   |-> Mutations,
                    before  |-> YouTubeMetrics]
    /\ RateUnchanged

\* Get...Total loads the failure counter and returns the sum.
RateLoadFailure ==
    /\ rateCall.pc = "failure"
    /\ rateCall' = [pc     |-> "divide",
                    fn     |-> rateCall.fn,
                    total  |-> rateCall.success
                               + YouTubeMetrics[RateCounters[rateCall.fn].failure],
                    began  |-> rateCall.began,
                    before |-> rateCall.before]
    /\ RateUnchanged

\* The function tests the total, loads the success counter again, divides
\* and returns.
RateReturn ==
    /\ rateCall.pc = "divide"
    /\ rateCall' = [pc     |-> "returned",
                    fn     |-> rateCall.fn,
                    total  |-> rateCall.total,
                    ret    |-> RateOf(rateCall.total,
                                      YouTubeMetrics[RateCounters[rateCall.fn].success]),
                    raced  |-> Mutations # rateCall.began,
                    before |-> rateCall.before]
    /\ RateUnchanged

NextRate ==
    \/ \E w \in Goroutines : GoroutineInc(w)
    \/ ResetStep
    \/ \E fn \in DOMAIN RateCounters : RateLoadSuccess(fn)
    \/ RateLoadFailure
    \/ RateReturn

SpecRate == InitRate /\ [][NextRate]_vars

-----------------------------------------------------------------------------
(* properties of ValidateAndSetLanguage and GetLanguageWithFallback        *)

Registry == DOMAIN LanguageMap

InValidateAndSetLanguage == call.op = "ValidateAndSetLanguage"

InGetLanguageWithFallback == call.op = "GetLanguageWithFallback"

\* What the last call added to a counter.
Added(counter) == YouTubeMetrics[counter] - call.metricsBefore[counter]

\* The locale a field resolves to, stated from the item's value alone.
Expected(itemValue, defaultLanguage) ==
    IF itemValue # "" /\ itemValue \in Registry THEN itemValue
    ELSE defaultLanguage

\* The item fields, as a two-element sequence <<Language, AudioLanguage>>.
ItemCodes(v) == <<v[1].Language, v[1].AudioLanguage>>

NonEmptyUnregistered(v) ==
    Cardinality({i \in 1..2 : ItemCodes(v)[i] # "" /\ ItemCodes(v)[i] \notin Registry})

EmptyFields(v) == Cardinality({i \in 1..2 : ItemCodes(v)[i] = ""})

Snippet == youtubeVideo[1].Snippet[1]

\* C1: ValidateAndSetLanguage returns no error, and completes without a
\* fault, for every combination of absent or present item, empty item
\* fields, absent outbound record, unregistered codes and every default.
C1_NeverFails ==
    InValidateAndSetLanguage =>
        /\ ~call.result.panic
        /\ ~panicked
        /\ call.result.ret = NIL

\* C2: called with an absent item and a present outbound record, the call
\* completes normally, both locales of the record are the supplied default
\* and no write to an item is attempted.
C2_NilItemUsesDefault ==
    (InValidateAndSetLanguage /\ call.videoBefore = NIL /\ call.youtubeBefore # NIL) =>
        /\ ~call.result.panic
        /\ call.result.ret = NIL
        /\ video = NIL
        /\ Snippet.DefaultLanguage = call.defaultLanguage
        /\ Snippet.DefaultAudioLanguage = call.defaultLanguage

\* C3 (as claimed): in every reachable state an item's AppliedLanguage and
\* AppliedAudioLanguage, once set, are non-empty codes of the registry,
\* whatever the default was.
C3_AppliedAlwaysRegistered ==
    (video # NIL /\ appliedDefault # NIL) =>
        /\ video[1].AppliedLanguage # ""
        /\ video[1].AppliedLanguage \in Registry
        /\ video[1].AppliedAudioLanguage # ""
        /\ video[1].AppliedAudioLanguage \in Registry

\* C3 (amended): in every reachable state an item's AppliedLanguage and
\* AppliedAudioLanguage, once set, are each a code of the registry or the
\* default supplied to the call that set them; they are non-empty codes of
\* the registry whenever that default is one.
C3_AppliedRegisteredOrDefault ==
    (video # NIL /\ appliedDefault # NIL) =>
        /\ video[1].AppliedLanguage \in Registry \cup {appliedDefault[1]}
        /\ video[1].AppliedAudioLanguage \in Registry \cup {appliedDefault[1]}
        /\ appliedDefault[1] \in Registry =>
              /\ video[1].AppliedLanguage # ""
              /\ video[1].AppliedLanguage \in Registry
              /\ video[1].AppliedAudioLanguage # ""
              /\ video[1].AppliedAudioLanguage \in Registry

\* An unregistered item code was replaced by a default outside the registry,
\* next to a registered audio code that was kept.
C3_Witness ==
    /\ video # NIL
    /\ appliedDefault = Ptr("fr")
    /\ video[1].Language = "invalid"
    /\ video[1].AudioLanguage = "en"
    /\ video[1].AppliedLanguage = "fr"
    /\ video[1].AppliedAudioLanguage = "en"

\* C4: for each of the two fields, a non-empty registered item value is the
\* resulting locale, and an empty or unregistered one resolves to the
\* supplied default, which is not validated again (an empty default gives
\* an empty locale); for ValidateAndSetLanguage, which stores the result in
\* the applied fields, and for GetLanguageWithFallback, which returns it.
C4_ResolvedLocale ==
    /\ (InValidateAndSetLanguage /\ call.videoBefore # NIL) =>
          /\ video[1].AppliedLanguage =
                Expected(call.videoBefore[1].Language, call.defaultLanguage)
          /\ video[1].AppliedAudioLanguage =
                Expected(call.videoBefore[1].AudioLanguage, call.defaultLanguage)
    /\ (InGetLanguageWithFallback /\ call.videoBefore # NIL) =>
          /\ call.result.language =
                Expected(call.videoBefore[1].Language, call.defaultLanguage)
          /\ call.result.audioLanguage =
                Expected(call.videoBefore[1].AudioLanguage, call.defaultLanguage)

\* An unregistered code with an empty default resolved to the empty locale,
\* next to a registered code that was kept.
C4_Witness ==
    /\ InValidateAndSetLanguage
    /\ call.videoBefore # NIL
    /\ call.defaultLanguage = ""
    /\ call.videoBefore[1].Language = "invalid"
    /\ call.videoBefore[1].AudioLanguage = "en"
    /\ video[1].AppliedLanguage = ""
    /\ video[1].AppliedAudioLanguage = "en"

\* C5: one invocation of ValidateAndSetLanguage adds to the fallback counter
\* exactly the number (0, 1 or 2) of its two requested locales that are not
\* in the registry: 0 when both item codes are registered, 2 when both are
\* non-empty and unregistered.
C5_FallbackCount ==
    InValidateAndSetLanguage =>
        /\ Added("LanguageFallback") =
              Cardinality({i \in 1..2 : call.result.requested[i] \notin Registry})
        /\ Added("LanguageFallback") \in 0..2
        /\ call.videoBefore # NIL =>
              /\ NonEmptyUnregistered(call.videoBefore) = 2
                    => Added("LanguageFallback") = 2
              /\ (\A i \in 1..2 : ItemCodes(call.videoBefore)[i] \in Registry)
                    => Added("LanguageFallback") = 0

\* Both item codes were unregistered and two fallbacks were counted.
C5_Witness ==
    /\ InValidateAndSetLanguage
    /\ call.videoBefore # NIL
    /\ call.videoBefore[1].Language = "invalid"
    /\ call.videoBefore[1].AudioLanguage = "fr"
    /\ call.defaultLanguage = "en"
    /\ Added("LanguageFallback") = 2

\* C6 (as claimed): an empty item field is filled with the default and is
\* never counted: the fallback counter grows by the number of non-empty
\* unregistered item codes only.
C6_OnlyNonEmptyUnregisteredCounts ==
    (InValidateAndSetLanguage /\ call.videoBefore # NIL) =>
        Added("LanguageFallback") = NonEmptyUnregistered(call.videoBefore)

\* C6 (amended): an empty item field is filled with the default and is not
\* counted as a fallback when the default is in the registry; when the
\* default is empty or unregistered the substituted default fails the
\* validation and the empty field is counted too.  Item Language "invalid",
\* AudioLanguage "" with default "en" gives applied locales ("en", "en"),
\* fallback +1, locale-set success +1 and locale-set failure unchanged.
C6_EmptyFieldCounting ==
    (InValidateAndSetLanguage /\ call.videoBefore # NIL) =>
        /\ Added("LanguageFallback") =
              NonEmptyUnregistered(call.videoBefore)
              + (IF call.defaultLanguage \in Registry THEN 0
                 ELSE EmptyFields(call.videoBefore))
        /\ ( /\ call.videoBefore[1].Language = "invalid"
             /\ call.videoBefore[1].AudioLanguage = ""
             /\ call.defaultLanguage = "en"
             /\ call.youtubeBefore # NIL ) =>
              /\ video[1].AppliedLanguage = "en"
              /\ video[1].AppliedAudioLanguage = "en"
              /\ Added("LanguageFallback") = 1
              /\ Added("LanguageSetSuccess") = 1
              /\ Added("LanguageSetFailure") = 0

\* The scenario of the claim: "invalid" and "" with default "en".
C6_Witness ==
    /\ InValidateAndSetLanguage
    /\ call.videoBefore # NIL
    /\ call.youtubeBefore # NIL
    /\ call.videoBefore[1].Language = "invalid"
    /\ call.videoBefore[1].AudioLanguage = ""
    /\ call.defaultLanguage = "en"
    /\ Added("LanguageFallback") = 1

\* C7: every invocation of ValidateAndSetLanguage adds exactly 1 to the
\* validations counter, on every path (both fields registered, one or two
\* fallbacks, apply failure), never one per field.
C7_OneValidationPerCall ==
    InValidateAndSetLanguage => Added("LanguageValidation") = 1

\* Two fallbacks and a failed apply, and one validation counted.
C7_Witness ==
    /\ InValidateAndSetLanguage
    /\ call.videoBefore # NIL
    /\ call.youtubeBefore = NIL
    /\ Added("LanguageFallback") = 2
    /\ Added("LanguageSetFailure") = 2
    /\ Added("LanguageValidation") = 1

\* C8: when the first application to the outbound record succeeds, which it
\* does whenever the record is present, with or without its snippet, the
\* invocation adds exactly 1 to locale-set success and nothing to
\* locale-set failure.
C8_FirstApplySucceeds ==
    InValidateAndSetLanguage =>
        /\ call.youtubeBefore # NIL => call.result.err = NIL
        /\ call.result.err = NIL =>
              /\ call.result.attempts = 1
              /\ Added("LanguageSetSuccess") = 1
              /\ Added("LanguageSetFailure") = 0

\* A record without snippet, an unregistered item code, one success counted.
C8_Witness ==
    /\ InValidateAndSetLanguage
    /\ call.youtubeBefore # NIL
    /\ call.youtubeBefore[1].Snippet = NIL
    /\ call.videoBefore # NIL
    /\ call.videoBefore[1].Language = "invalid"
    /\ call.result.err = NIL
    /\ Added("LanguageSetSuccess") = 1

\* C9: when the outbound record is absent the apply step fails with a
\* language error, locale-set failure is counted, the second application
\* with the default fails too and is counted (failure +2, success +0), and
\* the call returns no error.
C9_NilRecordNotPropagated ==
    (InValidateAndSetLanguage /\ call.youtubeBefore = NIL) =>
        /\ call.result.err # NIL
        /\ call.result.err[1].Type = ErrorTypeLanguage
        /\ call.result.fallbackErr # NIL
        /\ call.result.fallbackErr[1].Language = call.defaultLanguage
        /\ call.result.attempts = 2
        /\ Added("LanguageSetFailure") = 2
        /\ Added("LanguageSetSuccess") = 0
        /\ ~call.result.panic
        /\ call.result.ret = NIL

\* C10: on every path ValidateAndSetLanguage writes the two resulting locale
\* values onto the item's applied fields, and these are the locales written
\* to the outbound record: after the call the record's default language is
\* the item's AppliedLanguage and its default audio language is the item's
\* AppliedAudioLanguage.
C10_AppliedIsWritten ==
    (InValidateAndSetLanguage /\ call.videoBefore # NIL) =>
        /\ video[1].AppliedLanguage = call.result.language
        /\ video[1].AppliedAudioLanguage = call.result.audioLanguage
        /\ video[1].AppliedLanguage \in
              {call.result.requested[1], call.defaultLanguage}
        /\ video[1].AppliedAudioLanguage \in
              {call.result.requested[2], call.defaultLanguage}
        /\ youtubeVideo # NIL =>
              /\ youtubeVideo[1].Snippet # NIL
              /\ Snippet.DefaultLanguage = video[1].AppliedLanguage
              /\ Snippet.DefaultAudioLanguage = video[1].AppliedAudioLanguage

\* A registered code kept and an unregistered one replaced: the record and
\* the item both hold ("en", "fr").
C10_Witness ==
    /\ InValidateAndSetLanguage
    /\ call.videoBefore # NIL
    /\ call.videoBefore[1].Language = "en"
    /\ call.videoBefore[1].AudioLanguage = "invalid"
    /\ call.defaultLanguage = "fr"
    /\ youtubeVideo # NIL
    /\ Snippet.DefaultLanguage = "en"
    /\ Snippet.DefaultAudioLanguage = "fr"
    /\ video[1].AppliedLanguage = "en"
    /\ video[1].AppliedAudioLanguage = "fr"

\* C11: applying locales to a present outbound record whose snippet is
\* absent creates the snippet and sets both locale fields on it, and the
\* apply step reports success.
C11_SnippetCreated ==
    ( /\ InValidateAndSetLanguage
      /\ call.youtubeBefore # NIL
      /\ call.youtubeBefore[1].Snippet = NIL ) =>
        /\ call.result.err = NIL
        /\ call.result.attempts = 1
        /\ youtubeVideo # NIL
        /\ youtubeVideo[1].Snippet # NIL
        /\ Snippet.Title = ""
        /\ Snippet.DefaultLanguage = call.result.language
        /\ Snippet.DefaultAudioLanguage = call.result.audioLanguage
        /\ Added("LanguageSetSuccess") = 1
        /\ Added("LanguageSetFailure") = 0

\* A record without snippet received a snippet holding ("en", "fr").
C11_Witness ==
    /\ InValidateAndSetLanguage
    /\ call.youtubeBefore # NIL
    /\ call.youtubeBefore[1].Snippet = NIL
    /\ call.videoBefore # NIL
    /\ youtubeVideo[1].Snippet # NIL
    /\ Snippet.DefaultLanguage = "en"
    /\ Snippet.DefaultAudioLanguage = "fr"
    /\ call.result.err = NIL

\* C12: for every item and default GetLanguageWithFallback returns exactly
\* the pair ValidateAndSetLanguage would write to the item's applied
\* fields, and leaves the outbound record, the item and the locale-set
\* success and failure counters unchanged.
C12_SameAsValidateAndSet ==
    (InGetLanguageWithFallback /\ call.videoBefore # NIL) =>
        LET written == ValidateAndSetLanguage(call.metricsBefore, call.youtubeBefore,
                                              call.videoBefore, call.defaultLanguage)
        IN  /\ call.result.language = written.video[1].AppliedLanguage
            /\ call.result.audioLanguage = written.video[1].AppliedAudioLanguage
            /\ video = call.videoBefore
            /\ youtubeVideo = call.youtubeBefore
            /\ Added("LanguageSetSuccess") = 0
            /\ Added("LanguageSetFailure") = 0

\* A registered code and an unregistered one resolved without side effect.
C12_Witness ==
    /\ InGetLanguageWithFallback
    /\ call.videoBefore # NIL
    /\ call.videoBefore[1].Language = "en"
    /\ call.videoBefore[1].AudioLanguage = "invalid"
    /\ call.defaultLanguage = "fr"
    /\ call.result.language = "en"
    /\ call.result.audioLanguage = "fr"
    /\ youtubeVideo # NIL

\* C13: GetLanguageWithFallback performs steps 1 to 3 of the pipeline: it
\* resolves the two locales, counts one fallback per unregistered requested
\* locale, and adds exactly 1 to the validations counter per invocation.
C13_GetLanguageCountsValidation ==
    InGetLanguageWithFallback =>
        /\ Added("LanguageFallback") =
              Cardinality({i \in 1..2 : call.result.requested[i] \notin Registry})
        /\ Added("LanguageValidation") = 1

-----------------------------------------------------------------------------
(* properties of the error classifier                                      *)

LastErrCall == errCalls[1]

InCategorizeError == errCalls # <<>> /\ LastErrCall.op = "CategorizeError"

\* The classification table: keywords, kind, fixed message, retryable.
Rules ==
    << [keywords  |-> {"authentication", "unauthorized"}, kind |-> "auth",
        message   |-> "Authentication failed or insufficient permissions",
        retryable |-> FALSE],
       [keywords  |-> {"rate limit", "quota"}, kind |-> "rate_limit",
        message   |-> "Rate limit exceeded or quota exceeded",
        retryable |-> TRUE],
       [keywords  |-> {"network", "timeout", "connection"}, kind |-> "network",
        message   |-> "Network connectivity issue",
        retryable |-> TRUE],
       [keywords  |-> {"invalid", "bad request"}, kind |-> "invalid_request",
        message   |-> "Invalid request or malformed data",
        retryable |-> FALSE],
       [keywords  |-> {"server error", "internal server"}, kind |-> "server_error",
        message   |-> "YouTube server error",
        retryable |-> TRUE],
       [keywords  |-> {"language", "locale"}, kind |-> "language_error",
        message   |-> "Language setting error",
        retryable |-> FALSE],
       [keywords  |-> {"upload", "video"}, kind |-> "upload_error",
        message   |-> "Video upload error",
        retryable |-> TRUE] >>

UnknownRule ==
    [keywords |-> {}, kind |-> "unknown", message |-> "Unknown error occurred",
     retryable |-> FALSE]

RuleMatches(i, lowered) == \E k \in Rules[i].keywords : Contains(lowered, k)

\* The earliest rule of the table the lowered message matches.
FirstRule(lowered) ==
    IF \E i \in 1..Len(Rules) : RuleMatches(i, lowered)
    THEN Rules[CHOOSE i \in 1..Len(Rules) :
                  /\ RuleMatches(i, lowered)
                  /\ \A j \in 1..(i - 1) : ~RuleMatches(j, lowered)]
    ELSE UnknownRule

\* C14: CategorizeError applies the keyword rules to the lowered message in
\* the order auth, rate_limit, network, invalid_request, server_error,
\* language_error, upload_error, unknown; the first rule that matches gives
\* the kind, the fixed message and the retryable flag, whatever the letter
\* case; retryable is true exactly for rate_limit, network, server_error and
\* upload_error.
C14_FirstRuleWins ==
    (InCategorizeError /\ LastErrCall.err # NIL) =>
        LET text == ErrorText(LastErrCall.err)
            rule == FirstRule(ToLower(text))
            got  == LastErrCall.result[1]
        IN  /\ got.Type = rule.kind
            /\ got.Message = rule.message
            /\ got.Retryable = rule.retryable
            /\ got.Retryable <=>
                  got.Type \in {"rate_limit", "network", "server_error", "upload_error"}
            /\ text \in {"invalid language", "Invalid Language"}
                  => got.Type = "invalid_request"
            /\ text \in {"video upload timeout", "Video Upload Timeout"}
                  => got.Type = "network"
            /\ text = "VIDEO UPLOAD FAILED" => got.Type = "upload_error"
            /\ text = "some random error" => got.Type = "unknown"

\* A mixed-case message with keywords of the network and upload rules was
\* classified by the earlier rule.
C14_Witness ==
    /\ InCategorizeError
    /\ LastErrCall.err = NewError("Video Upload Timeout")
    /\ LastErrCall.result[1].Type = "network"
    /\ LastErrCall.result[1].Retryable

C16_SameLoweredSameClass ==
    ( /\ Len(errCalls) = 2
      /\ errCalls[1].err # NIL
      /\ errCalls[2].err # NIL
      /\ ToLower(ErrorText(errCalls[1].err)) = ToLower(ErrorText(errCalls[2].err)) ) =>
        /\ errCalls[1].result[1].Type = errCalls[2].result[1].Type
        /\ errCalls[1].result[1].Retryable = errCalls[2].result[1].Retryable

\* Two calls with messages that differ in letter case only.
C16_Witness ==
    /\ Len(errCalls) = 2
    /\ errCalls[1].err = NewError("Invalid Language")
    /\ errCalls[2].err = NewError("invalid language")
    /\ errCalls[1].result[1].Type = "invalid_request"
    /\ errCalls[2].result[1].Type = "invalid_request"

\* C17: the string form of a classified error is
\* "YouTube error [<kind>]: <message> (original: <cause>)" when it has a
\* cause and "YouTube error [<kind>]: <message>" when it has none.
C17_StringForm ==
    (errCalls # <<>> /\ LastErrCall.op = "Error") =>
        LET e      == LastErrCall.err[1]
            prefix == "YouTube error [" \o e.Type \o "]: " \o e.Message
        IN  /\ e.OriginalError = NIL =>
                  /\ LastErrCall.result = prefix
                  /\ ~Contains(LastErrCall.result, "(original")
            /\ e.OriginalError # NIL =>
                  LastErrCall.result =
                      prefix \o " (original: " \o ErrorText(e.OriginalError) \o ")"
            /\ ( /\ e.Type = "language_error"
                 /\ e.Message = "Language setting failed"
                 /\ e.OriginalError = NIL ) =>
                  LastErrCall.result =
                      "YouTube error [language_error]: Language setting failed"

\* The string form of an auth error that wraps "original error".
C17_Witness ==
    /\ errCalls # <<>>
    /\ LastErrCall.op = "Error"
    /\ LastErrCall.err[1].Type = "auth"
    /\ LastErrCall.err[1].OriginalError = NewError("original error")
    /\ LastErrCall.result =
          "YouTube error [auth]: Authentication failed (original: original error)"

\* C18: the constructors do no keyword matching: NewLanguageError always
\* gives kind language_error, not retryable, with the given code and cause;
\* NewUploadError always gives kind upload_error, retryable, with the given
\* item identifier and cause.
C18_ConstructorsFixKind ==
    /\ (errCalls # <<>> /\ LastErrCall.op = "NewLanguageError") =>
          /\ LastErrCall.result[1].Type = "language_error"
          /\ LastErrCall.result[1].Retryable = FALSE
          /\ LastErrCall.result[1].Language = LastErrCall.language
          /\ LastErrCall.result[1].OriginalError = LastErrCall.err
          /\ Contains(LastErrCall.result[1].Message, LastErrCall.language)
    /\ (errCalls # <<>> /\ LastErrCall.op = "NewUploadError") =>
          /\ LastErrCall.result[1].Type = "upload_error"
          /\ LastErrCall.result[1].Retryable = TRUE
          /\ LastErrCall.result[1].VideoID = LastErrCall.videoID
          /\ LastErrCall.result[1].OriginalError = LastErrCall.err
          /\ LastErrCall.result[1].Message = "Video upload failed"

\* An upload error made from a cause that CategorizeError classifies as a
\* non-retryable invalid_request.
C18_Witness ==
    /\ errCalls # <<>>
    /\ LastErrCall.op = "NewUploadError"
    /\ LastErrCall.err = NewError("Invalid Language")
    /\ CategorizeError(LastErrCall.err)[1].Type = "invalid_request"
    /\ LastErrCall.videoID = "test-video-123"
    /\ LastErrCall.result[1].Type = "upload_error"
    /\ LastErrCall.result[1].Retryable

-----------------------------------------------------------------------------
(* properties of the counters under concurrent access                      *)

\* How often one loop iteration increments the counter.
PerIteration(counter) ==
    Cardinality({i \in 1..Len(program.body) : program.body[i] = counter})

AllFinished == \A w \in Goroutines : Finished(w)

\* C19: starting from zero counters, NumGoroutines goroutines that each
\* increment a counter a number of times leave it, once all have finished
\* and under every interleaving, at exactly the product of the two numbers;
\* no increment is lost and no counter disturbs another.
C19_NoLostIncrement ==
    (AllFinished /\ resetPc = 0) =>
        \A counter \in DOMAIN ZeroMetrics :
            YouTubeMetrics[counter] =
                NumGoroutines * program.iterations * PerIteration(counter)

\* All goroutines of the two-counter loop have finished.
C19_Witness ==
    /\ AllFinished
    /\ resetPc = 0
    /\ program.body = <<"LanguageSetSuccess", "UploadSuccess">>
    /\ program.iterations = IncrementsPerGoroutine
    /\ GetLanguageSetSuccess(YouTubeMetrics) = NumGoroutines * IncrementsPerGoroutine
    /\ GetUploadSuccess(YouTubeMetrics) = NumGoroutines * IncrementsPerGoroutine
    /\ GetUploadFailure(YouTubeMetrics) = 0

\* C20: Reset zeroes all six counters: when it returns and no increment ran
\* beside it, every getter, total and success rate reads 0; an increment
\* racing with Reset leaves its counter at a whole value, the number of
\* increments ordered after the store to that counter (0 if the increment
\* came before the store, 1 if after).
C20_ResetZeroes ==
    /\ \A counter \in DOMAIN ZeroMetrics :
          /\ YouTubeMetrics[counter] \in Nat
          /\ Stored(counter) => YouTubeMetrics[counter] = late[counter]
    /\ ( /\ resetPc = Len(ResetOrder)
         /\ \A counter \in DOMAIN ZeroMetrics : late[counter] = 0 ) =>
          /\ GetLanguageSetSuccess(YouTubeMetrics) = 0
          /\ GetLanguageSetFailure(YouTubeMetrics) = 0
          /\ GetUploadSuccess(YouTubeMetrics) = 0
          /\ GetUploadFailure(YouTubeMetrics) = 0
          /\ GetLanguageValidation(YouTubeMetrics) = 0
          /\ GetLanguageFallback(YouTubeMetrics) = 0
          /\ GetLanguageSetTotal(YouTubeMetrics) = 0
          /\ GetUploadTotal(YouTubeMetrics) = 0
          /\ GetLanguageSetSuccessRate(YouTubeMetrics) = Float(0, 1)
          /\ GetUploadSuccessRate(YouTubeMetrics) = Float(0, 1)

\* Reset has returned; increments of all six counters preceded it, one
\* increment of UploadFailure came after the store to it, and one of
\* LanguageSetSuccess before the store to it.
C20_Witness ==
    /\ resetPc = Len(ResetOrder)
    /\ Len(program.body) = 6
    /\ AllFinished
    /\ late["UploadFailure"] = 1
    /\ GetUploadFailure(YouTubeMetrics) = 1
    /\ late["LanguageSetSuccess"] = 0
    /\ GetLanguageSetSuccess(YouTubeMetrics) = 0

-----------------------------------------------------------------------------
(* properties of the success rates                                         *)

RateReturned == rateCall.pc = "returned"

\* The value of a float64 result is that of the fraction.
FloatEq(a, b) == a.num * b.den = b.num * a.den

\* C21: a success rate is exactly 0.0 whenever the total it summed is zero
\* and it never divides by zero, also when Reset or increments run between
\* its loads; called with nothing running beside it and a non-zero total it
\* returns success / (success + failure); the totals are success + failure.
C21_RateDefined ==
    /\ GetLanguageSetTotal(YouTubeMetrics) =
          YouTubeMetrics.LanguageSetSuccess + YouTubeMetrics.LanguageSetFailure
    /\ GetUploadTotal(YouTubeMetrics) =
          YouTubeMetrics.UploadSuccess + YouTubeMetrics.UploadFailure
    /\ RateReturned =>
          LET success == rateCall.before[RateCounters[rateCall.fn].success]
              failure == rateCall.before[RateCounters[rateCall.fn].failure]
          IN  /\ rateCall.ret.den # 0
              /\ rateCall.total = 0 => rateCall.ret = Float(0, 1)
              /\ ~rateCall.raced =>
                    /\ rateCall.total = success + failure
                    /\ success + failure = 0 => rateCall.ret = Float(0, 1)
                    /\ success + failure # 0 =>
                          FloatEq(rateCall.ret, Float(success, success + failure))

\* A rate of 2/3 read with nothing running beside it, and a rate of 0.0
\* from a zero total read while the counters were changing.
C21_Witness ==
    /\ RateReturned
    /\ ~rateCall.raced
    /\ rateCall.fn = "LanguageSet"
    /\ rateCall.before.LanguageSetSuccess = 2
    /\ rateCall.before.LanguageSetFailure = 1
    /\ rateCall.ret = Float(2, 3)

\* C26: a success rate is always between 0.0 and 1.0 inclusive, also when
\* increments of the success counter or a Reset happen between the load of
\* the total and the later load of the success counter.
C26_RateWithinUnitInterval ==
    RateReturned =>
        /\ 0 <= rateCall.ret.num
        /\ rateCall.ret.num <= rateCall.ret.den

-----------------------------------------------------------------------------
(* properties of the persistence layer                                     *)

InGetVideo == storeCall.op = "GetVideo"

InGetIndex == storeCall.op = "GetIndex"

\* What a load returned beside its error.
Loaded == IF InGetVideo THEN storeCall.result.video ELSE storeCall.result.index

AllIdle == \A s \in Savers : savers[s].pc = "idle"

\* C22: WriteVideo of any Video to a path followed by GetVideo of that path
\* yields a value equal in every field, the nested Sponsorship and the
\* requested and applied locale pairs included.
C22_ItemRoundTrip ==
    (InGetVideo /\ storeCall.saved # NIL) =>
        /\ storeCall.result.err = NIL
        /\ storeCall.result.video = storeCall.saved
        /\ \A field \in DOMAIN ZeroVideo :
              storeCall.result.video[1][field] = storeCall.saved[1][field]

\* The fully populated item was saved and loaded.
C22_Witness ==
    /\ InGetVideo
    /\ storeCall.saved # NIL
    /\ storeCall.result.video # NIL
    /\ storeCall.result.video[1].Sponsorship.Emails = "sponsor@example.com"
    /\ storeCall.result.video[1].Language = "es"
    /\ storeCall.result.video[1].AppliedLanguage = "en"
    /\ storeCall.result.video[1].AppliedAudioLanguage = "de"

\* C23: GetVideo and GetIndex on a path where nothing is fail with a
\* not-found failure, and on a malformed document with a decode failure that
\* wraps the parse error; neither is reported as the other, and a failing
\* load returns no value.
C23_LoadFailures ==
    (InGetVideo \/ InGetIndex) =>
        LET err == storeCall.result.err
        IN  /\ storeCall.file = "missing" =>
                  err # NIL /\ err[1].Kind = "NotFound"
            /\ storeCall.file = "malformed" =>
                  err # NIL /\ err[1].Kind = "DecodeError" /\ err[1].Cause = "parse error"
            /\ storeCall.file = "document" => err = NIL
            /\ err # NIL => Loaded = NIL
            /\ err = NIL => Loaded # NIL

\* GetIndex failed on a malformed index after GetVideo's path was left empty.
C23_Witness ==
    /\ InGetIndex
    /\ storeCall.file = "malformed"
    /\ storeCall.result.err = DecodeError("video index")
    /\ \E path \in ItemPaths : GetVideo(files[path]).err = NotFoundError

\* C24: WriteIndex of a sequence of entries followed by GetIndex returns a
\* sequence of the same length with the same entries in the same order; the
\* file holds the whole index that was written and nothing else.
C24_IndexRoundTrip ==
    /\ (InGetIndex /\ storeCall.saved # NIL) =>
          /\ storeCall.result.err = NIL
          /\ Len(storeCall.result.index[1]) = Len(storeCall.saved[1])
          /\ \A i \in 1..Len(storeCall.saved[1]) :
                storeCall.result.index[1][i] = storeCall.saved[1][i]
    /\ lastSaved[IndexPath] # NIL =>
          Len(files[IndexPath][1].doc) = Len(lastSaved[IndexPath][1])

\* The index of two entries, the second first, was saved over another index
\* and loaded.
C24_Witness ==
    /\ InGetIndex
    /\ storeCall.saved = Ptr(<<IndexEntry2, IndexEntry1>>)
    /\ storeCall.result.index = Ptr(<<IndexEntry2, IndexEntry1>>)

\* What is at the path is the document of the save that completed last.
HoldsLastSaved(path) ==
    lastSaved[path] # NIL =>
        IF path = IndexPath
        THEN GetIndex(files[path]) = [index |-> lastSaved[path], err |-> NIL]
        ELSE GetVideo(files[path]) = [video |-> lastSaved[path], err |-> NIL]

\* A save that completes changes no path but its own.
SaveWritesOnePath ==
    \A s \in Savers :
        (savers[s].pc = "write" /\ savers'[s].pc = "idle") =>
            \A path \in Paths \ {savers[s].path} : files'[path] = files[path]

\* C25: after any interleaving of saves to the same path, once all have
\* completed a load returns exactly the value of the save that completed
\* last, never a merge; and a save to an item path or to the index leaves
\* every other document unchanged.
C25_LastWriterWins ==
    /\ [](AllIdle => \A path \in Paths : HoldsLastSaved(path))
    /\ [][SaveWritesOnePath]_vars

\* Two saves of different items to the same path overlapped and both have
\* completed; the other item path still holds what was saved there.
C25_Witness ==
    /\ AllIdle
    /\ storeCall.op = "WriteVideo"
    /\ storeCall.overlap
    /\ lastSaved[storeCall.path] # NIL
    /\ GetVideo(files[storeCall.path]).video = lastSaved[storeCall.path]
    /\ \E path \in ItemPaths \ {storeCall.path} :
          /\ lastSaved[path] # NIL
          /\ lastSaved[path] # lastSaved[storeCall.path]
          /\ GetVideo(files[path]).video = lastSaved[path]

-----------------------------------------------------------------------------
(* further properties of the language handler                              *)

InValidateLanguageCode ==
    errCalls # <<>> /\ LastErrCall.op = "ValidateLanguageCode"

\* C27: ValidateLanguageCode returns no error for "en", "es" and "fr", and
\* for the empty code, "invalid" and "english" a language error that is not
\* retryable and carries the code; it agrees with IsValidLanguage on every
\* code.
C27_ValidateLanguageCode ==
    InValidateLanguageCode =>
        LET language == LastErrCall.language
            err      == LastErrCall.result
        IN  /\ language \in {"en", "es", "fr"} => err = NIL
            /\ language \in {"", "invalid", "english"} =>
                  /\ err # NIL
                  /\ err[1].Type = ErrorTypeLanguage
                  /\ ~err[1].Retryable
                  /\ err[1].Language = language
            /\ (err = NIL) <=> IsValidLanguage(language)

\* C28: ValidateAndSetLanguage leaves the item's requested Language and
\* AudioLanguage as they were before the call, also when a fallback occurs.
C28_RequestedUnchanged ==
    (InValidateAndSetLanguage /\ call.videoBefore # NIL) =>
        /\ video # NIL
        /\ video[1].Language = call.videoBefore[1].Language
        /\ video[1].AudioLanguage = call.videoBefore[1].AudioLanguage

\* A fallback occurred: the requested code is still "invalid" and the
\* applied one is the default.
C28_Witness ==
    /\ InValidateAndSetLanguage
    /\ call.videoBefore # NIL
    /\ call.videoBefore[1].Language = "invalid"
    /\ call.defaultLanguage = "en"
    /\ Added("LanguageFallback") >= 1
    /\ video[1].Language = "invalid"
    /\ video[1].AppliedLanguage = "en"

\* C30: the apply step fails exactly when the outbound record is absent, so
\* the second application fails whenever the first does; no invocation
\* counts a success after a failure: it changes (locale-set success,
\* locale-set failure) by (+1, 0) or by (0, +2).
C30_NoSuccessAfterFailure ==
    InValidateAndSetLanguage =>
        /\ (call.result.err # NIL) <=> (call.youtubeBefore = NIL)
        /\ call.result.err # NIL => call.result.fallbackErr # NIL
        /\ <<Added("LanguageSetSuccess"), Added("LanguageSetFailure")>>
              \in {<<1, 0>>, <<0, 2>>}

\* Both applications failed on an absent record, with a registered default.
C30_Witness ==
    /\ InValidateAndSetLanguage
    /\ call.youtubeBefore = NIL
    /\ call.videoBefore # NIL
    /\ call.defaultLanguage = "en"
    /\ call.result.err # NIL
    /\ call.result.fallbackErr # NIL
    /\ Added("LanguageSetSuccess") = 0
    /\ Added("LanguageSetFailure") = 2

-----------------------------------------------------------------------------
(* properties of concurrent invocations                                    *)

AllReturned == \A g \in Goroutines : invocations[g].pc = "returned"

\* C29: in every state reached from zero counters by interleaved
\* ValidateAndSetLanguage invocations, fallbacks <= 2 * validations,
\* locale-set successes <= validations and locale-set failures <=
\* 2 * validations; when all invocations have returned, validations is their
\* number and validations <= successes + failures <= 2 * validations.
C29_CounterRelations ==
    LET validations == GetLanguageValidation(YouTubeMetrics)
    IN  /\ GetLanguageFallback(YouTubeMetrics) <= 2 * validations
        /\ GetLanguageSetSuccess(YouTubeMetrics) <= validations
        /\ GetLanguageSetFailure(YouTubeMetrics) <= 2 * validations
        /\ AllReturned =>
              /\ validations = NumGoroutines
              /\ validations <= GetLanguageSetTotal(YouTubeMetrics)
              /\ GetLanguageSetTotal(YouTubeMetrics) <= 2 * validations

\* All invocations have returned; one counted two fallbacks and two
\* failures, another a success.
C29_Witness ==
    /\ AllReturned
    /\ GetLanguageValidation(YouTubeMetrics) = NumGoroutines
    /\ GetLanguageFallback(YouTubeMetrics) >= 2
    /\ GetLanguageSetFailure(YouTubeMetrics) = 2
    /\ GetLanguageSetSuccess(YouTubeMetrics) = NumGoroutines - 1

====
